---------------------------- MODULE Spec2Model ----------------------------
(***************************************************************************)
(* Detritus: firmware of a two-channel relay module (src/Detritus.ino).    *)
(*                                                                         *)
(* The program is the Arduino pair setup()/loop().  The state is the       *)
(* sketch's global variables; one control cycle is loop(), which runs      *)
(* gpioLoop, wifimanagerLoop, mqttLoop and delay in that order (or the OTA *)
(* branch), and then restarts the chip when the restart flag is set.       *)
(* The libraries (WiFiManager, PubSubClient, ArduinoOTA) act on the        *)
(* sketch's state only through the callbacks the sketch registers; what    *)
(* they deliver (a saved form, a message, a connect result) is an input.   *)
(*                                                                         *)
(* Every handler is an operator on a record m of the globals, written in   *)
(* the order of the handler's statements; an action applies one handler    *)
(* to the current globals and stores the result.                           *)
(***************************************************************************)
EXTENDS Integers, Sequences, FiniteSets

VARIABLES
  pc,                        \* position of loop(): which call runs next
  now,                       \* millis()
  swapRelays, invertSwitch, respectSwitchState,
  mqttInTopic1, mqttInTopic2,
  s1State, s2State, l1State, l2State,
  manualSetupActivatorTime, manualSetupModeCounter,
  wifiManagerSetupRunning, wifiManagerSetupStart,
  otaRunning, otaStart, restart, offline,
  mqttConnected,             \* mqttClient.connected()
  mqttConnectAttempt, mqttConnectDelay,
  subscribed,                \* the topics the latest successful connect subscribed to
  published,                 \* history: what the latest step handed to mqttClient.publish
  received,                  \* history: the message the latest step's mqttClient.loop() delivered
  arrived,                   \* history: the message the broker sent to the device during the latest step
  gpioWrote,                 \* history: the relays the latest call of gpioLoop wrote
  restartCause,              \* history: what has set the restart flag
  halted,                    \* ESP.restart() has been called
  lastCmd,                   \* history: the delivery before that one, with its outcome
  edgeLog,                   \* history: the latest runs of the setup-gesture detector
  portalStarts,              \* history: calls of wifiManager.startConfigPortal
  connectFails               \* history: failed connect attempts since the last success

vars == << pc, now, swapRelays, invertSwitch, respectSwitchState,
           mqttInTopic1, mqttInTopic2, s1State, s2State, l1State, l2State,
           manualSetupActivatorTime, manualSetupModeCounter,
           wifiManagerSetupRunning, wifiManagerSetupStart,
           otaRunning, otaStart, restart, offline,
           mqttConnected, mqttConnectAttempt, mqttConnectDelay, subscribed,
           published, received, arrived, gpioWrote, restartCause, halted,
           lastCmd, edgeLog, portalStarts, connectFails >>

---------------------------------------------------------------------------
(* Program constants *)

CONFIG_TIMEOUT_MS == 300000
OTA_TIMEOUT_MS == 300000
LOOP_DELAY_MS == 10
MANUAL_SETUP_MAX_DELAY_MS == 500
MANUAL_SETUP_COUNTER == 5
RECONNECT_STEP_MS == 1000
RECONNECT_MAX_MS == 60000
PAYLOAD_COPY_MAX == 9

CMD_ON == << "1" >>
CMD_OFF == << "0" >>
CMD_SETUP == << "s", "e", "t" >>
CMD_OTA == << "o", "t", "a" >>
CMD_RESET == << "r", "s", "t" >>

\* unsigned long is 32 bits wide on the ESP8266; a difference that wraps is
\* 2^32 - (b - a), which is at least 2^31 for the timestamps of one run
ULONG_WRAPPED == 2147483647

\* the terminating byte of a C string
NUL == ""

---------------------------------------------------------------------------
(* Bounds of the model *)

\* millis() when setup() returns
BootNow == 100
\* the general specification: a cycle takes Tick ms, the clock stops the run at MaxNow
Tick == 300001
MaxNow == 300101
\* the gesture specification
GestureMaxNow == 1200
GestureStep == 100
GestureEdge == 500
GestureGap == 600
\* the backoff specification
BackoffMaxNow == 4000000
BackoffStep == 61000
\* entries the gesture history keeps
MaxLog == 6
\* the modes specification: a cycle takes ModesStep ms, a mode entered up to
\* ModesEntryMax is followed to its end, the clock stops the run at ModesMaxNow
ModesStep == 100000
ModesEntryMax == 200100
ModesMaxNow == 700100
\* the gating specification: cycles of the length of the reconnect step and shorter
GateStep == 1000
GateShort == 400
GateMaxNow == 8100

---------------------------------------------------------------------------
(* Helpers *)

Min(a, b) == IF a < b THEN a ELSE b

\* a - b on unsigned long: exact while a >= b (a timestamp taken from the
\* clock a is read from); a wrapped difference is larger than every constant
\* it is compared with
Sub32(a, b) == IF a >= b THEN a - b ELSE ULONG_WRAPPED

\* String::startsWith
StartsWith(s, prefix) ==
  /\ Len(s) >= Len(prefix)
  /\ SubSeq(s, 1, Len(prefix)) = prefix

\* the C string held in a char buffer: the bytes before the first NUL
RECURSIVE CString(_)
CString(buf) ==
  IF buf = << >> \/ Head(buf) = NUL THEN << >>
  ELSE << Head(buf) >> \o CString(Tail(buf))

\* the last n entries of a sequence
LastN(s, n) == IF Len(s) <= n THEN s ELSE SubSeq(s, Len(s) - n + 1, Len(s))

NoMsg == [topic |-> "none", payload |-> << >>]

---------------------------------------------------------------------------
(* The globals as one record, and back *)

Mem ==
  [ now |-> now,
    swapRelays |-> swapRelays, invertSwitch |-> invertSwitch,
    respectSwitchState |-> respectSwitchState,
    mqttInTopic1 |-> mqttInTopic1, mqttInTopic2 |-> mqttInTopic2,
    s1State |-> s1State, s2State |-> s2State,
    l1State |-> l1State, l2State |-> l2State,
    manualSetupActivatorTime |-> manualSetupActivatorTime,
    manualSetupModeCounter |-> manualSetupModeCounter,
    wifiManagerSetupRunning |-> wifiManagerSetupRunning,
    wifiManagerSetupStart |-> wifiManagerSetupStart,
    otaRunning |-> otaRunning, otaStart |-> otaStart,
    restart |-> restart, offline |-> offline,
    mqttConnected |-> mqttConnected,
    mqttConnectAttempt |-> mqttConnectAttempt,
    mqttConnectDelay |-> mqttConnectDelay,
    subscribed |-> subscribed,
    published |-> << >>, received |-> NoMsg, arrived |-> NoMsg,
    gpioWrote |-> gpioWrote, restartCause |-> restartCause, halted |-> halted,
    wrote |-> {},              \* the relays the handler that runs has written so far
    lastCmd |-> lastCmd,
    edgeLog |-> edgeLog, portalStarts |-> portalStarts,
    connectFails |-> connectFails ]

Store(m) ==
  /\ now' = m.now
  /\ swapRelays' = m.swapRelays
  /\ invertSwitch' = m.invertSwitch
  /\ respectSwitchState' = m.respectSwitchState
  /\ mqttInTopic1' = m.mqttInTopic1
  /\ mqttInTopic2' = m.mqttInTopic2
  /\ s1State' = m.s1State
  /\ s2State' = m.s2State
  /\ l1State' = m.l1State
  /\ l2State' = m.l2State
  /\ manualSetupActivatorTime' = m.manualSetupActivatorTime
  /\ manualSetupModeCounter' = m.manualSetupModeCounter
  /\ wifiManagerSetupRunning' = m.wifiManagerSetupRunning
  /\ wifiManagerSetupStart' = m.wifiManagerSetupStart
  /\ otaRunning' = m.otaRunning
  /\ otaStart' = m.otaStart
  /\ restart' = m.restart
  /\ offline' = m.offline
  /\ mqttConnected' = m.mqttConnected
  /\ mqttConnectAttempt' = m.mqttConnectAttempt
  /\ mqttConnectDelay' = m.mqttConnectDelay
  /\ subscribed' = m.subscribed
  /\ published' = m.published
  /\ received' = m.received
  /\ arrived' = m.arrived
  /\ gpioWrote' = m.gpioWrote
  /\ restartCause' = m.restartCause
  /\ halted' = m.halted
  /\ lastCmd' = m.lastCmd
  /\ edgeLog' = m.edgeLog
  /\ portalStarts' = m.portalStarts
  /\ connectFails' = m.connectFails

\* the position of loop() after a handler: a handler that has called
\* ESP.restart() does not return
Goto(m, next) ==
  /\ Store(m)
  /\ pc' = IF m.halted THEN "restarted" ELSE next

---------------------------------------------------------------------------
(* Configuration portal *)

\* the AP callback: WiFiManager calls it when the portal's access point starts
wifiManagerSetupStarted(m) ==
  [m EXCEPT !.wifiManagerSetupRunning = TRUE,
            !.wifiManagerSetupStart = m.now]

\* mutant of wifiManagerSetupStopped: the chip is restarted on the spot
wifiManagerSetupStopped_Immediate(m) ==
  [m EXCEPT !.restart = TRUE, !.halted = TRUE]

\* mutant of wifiManagerSetupStopped: the portal is left without a restart
wifiManagerSetupStopped_Leaves(m) ==
  [m EXCEPT !.wifiManagerSetupRunning = FALSE]

wifiManagerSetupStopped(m) ==
  [m EXCEPT !.restart = TRUE]

\* mutant of startWifiManager: the guard against a running portal is missing
startWifiManager_NoGuard(m) ==
  wifiManagerSetupStarted([m EXCEPT !.portalStarts = @ + 1])

\* startWifiManager(true): the on-demand portal
startWifiManager(m) ==
  IF m.wifiManagerSetupRunning THEN m
  ELSE wifiManagerSetupStarted([m EXCEPT !.portalStarts = @ + 1])

---------------------------------------------------------------------------
(* Status publisher *)

\* mutant of mqttMsg: the swap of the switches is forgotten
mqttMsg_NoSwap(m, l1Report) ==
  IF l1Report
  THEN << IF m.l1State THEN "1" ELSE "0",
          IF m.invertSwitch
          THEN (IF m.s1State THEN NUL ELSE ".")
          ELSE (IF m.s1State THEN "." ELSE NUL),
          NUL >>
  ELSE << IF m.l2State THEN "1" ELSE "0",
          IF m.invertSwitch
          THEN (IF m.s2State THEN NUL ELSE ".")
          ELSE (IF m.s2State THEN "." ELSE NUL),
          NUL >>

mqttMsg(m, l1Report) ==
  IF l1Report
  THEN << IF m.l1State THEN "1" ELSE "0",
          IF m.swapRelays
          THEN IF m.invertSwitch
               THEN (IF m.s2State THEN NUL ELSE ".")
               ELSE (IF m.s2State THEN "." ELSE NUL)
          ELSE IF m.invertSwitch
               THEN (IF m.s1State THEN NUL ELSE ".")
               ELSE (IF m.s1State THEN "." ELSE NUL),
          NUL >>
  ELSE << IF m.l2State THEN "1" ELSE "0",
          IF m.swapRelays
          THEN IF m.invertSwitch
               THEN (IF m.s1State THEN NUL ELSE ".")
               ELSE (IF m.s1State THEN "." ELSE NUL)
          ELSE IF m.invertSwitch
               THEN (IF m.s2State THEN NUL ELSE ".")
               ELSE (IF m.s2State THEN "." ELSE NUL),
          NUL >>

mqttCommunicate(m, l1Report) ==
  IF ~m.offline /\ m.mqttConnected
  THEN [m EXCEPT !.published =
          Append(@, [topic |-> IF l1Report THEN 1 ELSE 2,
                     payload |-> CString(mqttMsg(m, l1Report))])]
  ELSE m

---------------------------------------------------------------------------
(* Relays *)

enableL1(m) == mqttCommunicate([m EXCEPT !.l1State = TRUE, !.wrote = @ \cup {1}], TRUE)

\* mutant of enableL2: the status is not published
enableL2_Silent(m) == [m EXCEPT !.l2State = TRUE, !.wrote = @ \cup {2}]

enableL2(m) == mqttCommunicate([m EXCEPT !.l2State = TRUE, !.wrote = @ \cup {2}], FALSE)

\* mutant of disableL1: the status is published and the relay is left as it is
disableL1_Keeps(m) == mqttCommunicate([m EXCEPT !.wrote = @ \cup {1}], TRUE)

disableL1(m) == mqttCommunicate([m EXCEPT !.l1State = FALSE, !.wrote = @ \cup {1}], TRUE)

disableL2(m) == mqttCommunicate([m EXCEPT !.l2State = FALSE, !.wrote = @ \cup {2}], FALSE)

---------------------------------------------------------------------------
(* gpioLoop *)

\* mutant of switchS1: under swap the inversion is forgotten
switchS1_NoInvert(m) ==
  IF m.respectSwitchState
  THEN IF m.swapRelays
       THEN (IF m.s1State THEN enableL2(m) ELSE disableL2(m))
       ELSE IF m.invertSwitch
            THEN (IF m.s1State THEN disableL1(m) ELSE enableL1(m))
            ELSE (IF m.s1State THEN enableL1(m) ELSE disableL1(m))
  ELSE IF m.swapRelays
       THEN (IF m.l2State THEN disableL2(m) ELSE enableL2(m))
       ELSE (IF m.l1State THEN disableL1(m) ELSE enableL1(m))

\* if (s1Changed) { ... }
switchS1(m) ==
  IF m.respectSwitchState
  THEN IF m.swapRelays
       THEN IF m.invertSwitch
            THEN (IF m.s1State THEN disableL2(m) ELSE enableL2(m))
            ELSE (IF m.s1State THEN enableL2(m) ELSE disableL2(m))
       ELSE IF m.invertSwitch
            THEN (IF m.s1State THEN disableL1(m) ELSE enableL1(m))
            ELSE (IF m.s1State THEN enableL1(m) ELSE disableL1(m))
  ELSE IF m.swapRelays
       THEN (IF m.l2State THEN disableL2(m) ELSE enableL2(m))
       ELSE (IF m.l1State THEN disableL1(m) ELSE enableL1(m))

\* mutant of switchS2: under swap the toggle reads the other relay's state
switchS2_WrongRelay(m) ==
  IF m.respectSwitchState
  THEN IF m.swapRelays
       THEN IF m.invertSwitch
            THEN (IF m.s2State THEN disableL1(m) ELSE enableL1(m))
            ELSE (IF m.s2State THEN enableL1(m) ELSE disableL1(m))
       ELSE IF m.invertSwitch
            THEN (IF m.s2State THEN disableL2(m) ELSE enableL2(m))
            ELSE (IF m.s2State THEN enableL2(m) ELSE disableL2(m))
  ELSE IF m.swapRelays
       THEN (IF m.l2State THEN disableL1(m) ELSE enableL1(m))
       ELSE (IF m.l2State THEN disableL2(m) ELSE enableL2(m))

\* if (s2Changed) { ... }
switchS2(m) ==
  IF m.respectSwitchState
  THEN IF m.swapRelays
       THEN IF m.invertSwitch
            THEN (IF m.s2State THEN disableL1(m) ELSE enableL1(m))
            ELSE (IF m.s2State THEN enableL1(m) ELSE disableL1(m))
       ELSE IF m.invertSwitch
            THEN (IF m.s2State THEN disableL2(m) ELSE enableL2(m))
            ELSE (IF m.s2State THEN enableL2(m) ELSE disableL2(m))
  ELSE IF m.swapRelays
       THEN (IF m.l1State THEN disableL1(m) ELSE enableL1(m))
       ELSE (IF m.l2State THEN disableL2(m) ELSE enableL2(m))

\* mutant of manualSetupInWindow: the window includes its end
manualSetupInWindow_Inclusive(manualSetupActivatorDelay) ==
  manualSetupActivatorDelay <= MANUAL_SETUP_MAX_DELAY_MS

\* the window test of the setup gesture
manualSetupInWindow(manualSetupActivatorDelay) ==
  manualSetupActivatorDelay < MANUAL_SETUP_MAX_DELAY_MS

\* the counter when an edge arrives outside the window
manualSetupCounterRestart == 0

\* if (s1Changed || s2Changed) { ... }; the edgeLog entry is history
manualSetup(m) ==
  LET manualSetupActivatorDelay == Sub32(m.now, m.manualSetupActivatorTime)
      inWindow == manualSetupInWindow(manualSetupActivatorDelay)
      counter == IF inWindow THEN m.manualSetupModeCounter + 1
                 ELSE manualSetupCounterRestart
      requested == inWindow /\ counter = MANUAL_SETUP_COUNTER
      m1 == [m EXCEPT !.manualSetupModeCounter = counter]
      m2 == IF requested THEN startWifiManager(m1) ELSE m1
      entry == [ gap |-> manualSetupActivatorDelay,
                 before |-> m.manualSetupModeCounter,
                 after |-> counter,
                 portal |-> m.wifiManagerSetupRunning,
                 requested |-> requested,
                 entered |-> m2.portalStarts > m.portalStarts ]
  IN [m2 EXCEPT !.manualSetupActivatorTime = m.now,
                !.edgeLog = LastN(Append(@, entry), MaxLog)]

\* buttonLow, s1Low, s2Low: digitalRead(...) == LOW; gpioWrote is history
gpioLoop(m, buttonLow, s1Low, s2Low) ==
  LET m1 == IF buttonLow THEN startWifiManager(m) ELSE m
      s1Changed == IF s1Low THEN m1.s1State = FALSE ELSE m1.s1State = TRUE
      s2Changed == IF s2Low THEN m1.s2State = FALSE ELSE m1.s2State = TRUE
      m2 == [m1 EXCEPT !.s1State = s1Low, !.s2State = s2Low]
      m3 == IF s1Changed THEN switchS1(m2) ELSE m2
      m4 == IF s2Changed THEN switchS2(m3) ELSE m3
      m5 == IF s1Changed \/ s2Changed THEN manualSetup(m4) ELSE m4
  IN [m5 EXCEPT !.gpioWrote = m5.wrote]

---------------------------------------------------------------------------
(* wifimanagerLoop *)

NoSave == [saved |-> FALSE]

\* the form the portal hands to saveParamsCallback
SavedForm(cfg) == [saved |-> TRUE, cfg |-> cfg]

\* cfg: the values of the portal's form (the config file is not modelled)
saveParamsCallback(m, cfg) ==
  wifiManagerSetupStopped(
    [m EXCEPT !.mqttInTopic1 = cfg.mqttInTopic1,
              !.mqttInTopic2 = cfg.mqttInTopic2,
              !.swapRelays = cfg.swapRelays,
              !.respectSwitchState = cfg.respectSwitchState,
              !.invertSwitch = cfg.invertSwitch,
              !.restartCause = @ \cup {"save"}])

\* form: what wifiManager.process() received (NoSave: nothing);
\* wifiConnected: WiFi.status() == WL_CONNECTED
wifimanagerLoop(m, form, wifiConnected) ==
  LET m1 == IF form.saved THEN saveParamsCallback(m, form.cfg) ELSE m
      m2 == IF m1.wifiManagerSetupRunning
               /\ Sub32(m1.now, m1.wifiManagerSetupStart) > CONFIG_TIMEOUT_MS
            THEN wifiManagerSetupStopped([m1 EXCEPT !.restartCause = @ \cup {"portal timeout"}])
            ELSE m1
  IN [m2 EXCEPT !.offline = ~wifiConnected]

---------------------------------------------------------------------------
(* Command dispatcher *)

\* the on/off part of mqttCallback
mqttCallbackRelay(m, topic, cmd) ==
  IF topic = m.mqttInTopic1
  THEN LET a == IF StartsWith(cmd, CMD_ON) THEN enableL1(m) ELSE m
       IN IF StartsWith(cmd, CMD_OFF) THEN disableL1(a) ELSE a
  ELSE IF topic = m.mqttInTopic2
  THEN LET a == IF StartsWith(cmd, CMD_ON) THEN enableL2(m) ELSE m
       IN IF StartsWith(cmd, CMD_OFF) THEN disableL2(a) ELSE a
  ELSE m

\* mutant of mqttCallbackMode: entering setup also switches relay 1 off
mqttCallbackMode_SetupClears(m, cmd) ==
  LET m1 == IF StartsWith(cmd, CMD_SETUP)
            THEN startWifiManager([m EXCEPT !.l1State = FALSE])
            ELSE m
      m2 == IF StartsWith(cmd, CMD_RESET)
            THEN [m1 EXCEPT !.restart = TRUE, !.restartCause = @ \cup {"rst"}]
            ELSE m1
  IN IF StartsWith(cmd, CMD_OTA)
     THEN [m2 EXCEPT !.otaStart = m2.now, !.otaRunning = TRUE]
     ELSE m2

\* the mode part of mqttCallback
mqttCallbackMode(m, cmd) ==
  LET m1 == IF StartsWith(cmd, CMD_SETUP) THEN startWifiManager(m) ELSE m
      m2 == IF StartsWith(cmd, CMD_RESET)
            THEN [m1 EXCEPT !.restart = TRUE, !.restartCause = @ \cup {"rst"}]
            ELSE m1
  IN IF StartsWith(cmd, CMD_OTA)
     THEN [m2 EXCEPT !.otaStart = m2.now, !.otaRunning = TRUE]
     ELSE m2

mqttCallback(m, topic, payload) ==
  LET length == Len(payload)
      _length == Min(length, PAYLOAD_COPY_MAX)
      payloadCopy == SubSeq(payload, 1, _length) \o << NUL >>
      cmd == CString(payloadCopy)
  IN mqttCallbackRelay(mqttCallbackMode(m, cmd), topic, cmd)

---------------------------------------------------------------------------
(* Broker connection *)

\* the test that lets mqttReconnect attempt a connect
mqttReconnectDue(m) ==
  Sub32(m.now, m.mqttConnectAttempt) > m.mqttConnectDelay

\* mutant of mqttReconnectDelay: the ceiling is forgotten
mqttReconnectDelay_NoCap(d) == d + RECONNECT_STEP_MS

\* the delay an attempt leaves before it connects
mqttReconnectDelay(d) ==
  IF d + RECONNECT_STEP_MS > RECONNECT_MAX_MS
  THEN RECONNECT_MAX_MS
  ELSE d + RECONNECT_STEP_MS

\* mutant of mqttReconnect: a failed connect asks for a restart
mqttReconnect_RestartsOnFail(m, connectOk) ==
  IF ~m.mqttConnected /\ mqttReconnectDue(m)
  THEN LET m1 == [m EXCEPT !.mqttConnectDelay = mqttReconnectDelay(@),
                           !.mqttConnectAttempt = m.now]
       IN IF connectOk
          THEN [m |-> [m1 EXCEPT !.mqttConnected = TRUE,
                                 !.subscribed = {m.mqttInTopic1, m.mqttInTopic2},
                                 !.mqttConnectDelay = 0,
                                 !.connectFails = 0],
                ok |-> TRUE]
          ELSE [m |-> [m1 EXCEPT !.connectFails = @ + 1, !.restart = TRUE],
                ok |-> FALSE]
  ELSE [m |-> m, ok |-> FALSE]

\* mutant of mqttReconnect: a successful connect publishes both statuses
mqttReconnect_Replays(m, connectOk) ==
  IF ~m.mqttConnected /\ mqttReconnectDue(m)
  THEN LET m1 == [m EXCEPT !.mqttConnectDelay = mqttReconnectDelay(@),
                           !.mqttConnectAttempt = m.now]
       IN IF connectOk
          THEN [m |-> mqttCommunicate(
                        mqttCommunicate([m1 EXCEPT !.mqttConnected = TRUE,
                                                   !.subscribed = {m.mqttInTopic1, m.mqttInTopic2},
                                                   !.mqttConnectDelay = 0,
                                                   !.connectFails = 0], TRUE), FALSE),
                ok |-> TRUE]
          ELSE [m |-> [m1 EXCEPT !.connectFails = @ + 1], ok |-> FALSE]
  ELSE [m |-> m, ok |-> FALSE]

\* connectOk: the result of mqttClient.connect(...); the result is [m, ok];
\* connectFails is history
mqttReconnect(m, connectOk) ==
  IF ~m.mqttConnected /\ mqttReconnectDue(m)
  THEN LET m1 == [m EXCEPT !.mqttConnectDelay = mqttReconnectDelay(@),
                           !.mqttConnectAttempt = m.now]
       IN IF connectOk
          THEN [m |-> [m1 EXCEPT !.mqttConnected = TRUE,
                                 !.subscribed = {m.mqttInTopic1, m.mqttInTopic2},
                                 !.mqttConnectDelay = 0,
                                 !.connectFails = 0],
                ok |-> TRUE]
          ELSE [m |-> [m1 EXCEPT !.connectFails = @ + 1], ok |-> FALSE]
  ELSE [m |-> m, ok |-> FALSE]

\* the broker sends the session the messages of the topics it subscribed to
Sent(m, msg) == msg # NoMsg /\ msg.topic \in m.subscribed

\* mqttClient.loop(): delivers msg to mqttCallback (nothing when the broker
\* has sent nothing); received, arrived and lastCmd are history
mqttClientLoop(m, msg) ==
  IF ~Sent(m, msg) THEN m
  ELSE LET m1 == mqttCallback([m EXCEPT !.received = msg, !.arrived = msg],
                              msg.topic, msg.payload)
       IN [m1 EXCEPT !.lastCmd = [msg |-> msg, l1State |-> m1.l1State,
                                  l2State |-> m1.l2State,
                                  published |-> m1.published]]

mqttLoop(m, connectOk, msg) ==
  IF ~m.mqttConnected
  THEN LET r == mqttReconnect(m, connectOk)
       IN IF ~r.ok THEN r.m ELSE mqttClientLoop(r.m, msg)
  ELSE mqttClientLoop(m, msg)

---------------------------------------------------------------------------
(* The inputs a specification draws *)

Topics == {"cmd1", "cmd2"}

Payloads == { CMD_ON, CMD_OFF, CMD_SETUP, CMD_OTA, CMD_RESET, << "1", "0" >>, << "x" >> }

Messages == [topic : Topics, payload : Payloads]

Configs ==
  [ swapRelays : BOOLEAN, respectSwitchState : BOOLEAN, invertSwitch : BOOLEAN,
    mqttInTopic1 : {"cmd1"}, mqttInTopic2 : Topics ]

\* the defaults of the sketch
DefaultConfig ==
  [ swapRelays |-> FALSE, respectSwitchState |-> TRUE, invertSwitch |-> FALSE,
    mqttInTopic1 |-> "cmd1", mqttInTopic2 |-> "cmd2" ]

---------------------------------------------------------------------------
(* setup() and loop() *)

\* the globals after setup(): cfg is what the config file gave, s1Low and s2Low
\* the switch pins, portal whether autoConnect opened the configuration portal
\* (the AP callback then ran as setup() returned)
setup(cfg, s1Low, s2Low, portal) ==
  /\ pc = "loop"
  /\ now = BootNow
  /\ swapRelays = cfg.swapRelays
  /\ invertSwitch = cfg.invertSwitch
  /\ respectSwitchState = cfg.respectSwitchState
  /\ mqttInTopic1 = cfg.mqttInTopic1
  /\ mqttInTopic2 = cfg.mqttInTopic2
  /\ s1State = s1Low
  /\ s2State = s2Low
  /\ l1State = FALSE
  /\ l2State = FALSE
  /\ manualSetupActivatorTime = 0
  /\ manualSetupModeCounter = 0
  /\ wifiManagerSetupRunning = portal
  /\ wifiManagerSetupStart = IF portal THEN BootNow ELSE 0
  /\ otaRunning = FALSE
  /\ otaStart = 0
  /\ restart = FALSE
  /\ offline = TRUE
  /\ mqttConnected = FALSE
  /\ mqttConnectAttempt = 0
  /\ mqttConnectDelay = 0
  /\ subscribed = {}
  /\ published = << >>
  /\ received = NoMsg
  /\ arrived = NoMsg
  /\ gpioWrote = {}
  /\ restartCause = {}
  /\ halted = FALSE
  /\ lastCmd = [msg |-> NoMsg, l1State |-> FALSE, l2State |-> FALSE, published |-> << >>]
  /\ edgeLog = << >>
  /\ portalStarts = 0
  /\ connectFails = 0

Boot(E) ==
  \E cfg \in E.configs, s \in E.pins, portal \in E.bootPortal :
    setup(cfg, s[1], s[2], portal)

\* loop(), the OTA branch: ArduinoOTA.handle() takes d ms (the branch ends
\* with the timeout, so the clock needs no bound here); mqttClient.loop() is
\* not called, so a message msg the broker sends over the open session
\* meanwhile stays unread
LoopOta(E) ==
  /\ pc = "loop"
  /\ otaRunning
  /\ \E d \in E.adv, msg \in E.msgs :
       LET m == [Mem EXCEPT !.now = now + d,
                            !.arrived = IF ~offline /\ mqttConnected /\ Sent(Mem, msg)
                                        THEN msg ELSE NoMsg]
       IN Goto(IF Sub32(m.now, m.otaStart) > OTA_TIMEOUT_MS
               THEN [m EXCEPT !.restart = TRUE, !.restartCause = @ \cup {"ota timeout"}]
               ELSE m,
               "restart")

LoopGpio(E) ==
  /\ pc = "loop"
  /\ ~otaRunning
  /\ \E buttonLow \in E.button, flip \in E.flips :
       Goto(gpioLoop(Mem, buttonLow, s1State # flip[1], s2State # flip[2]), "wifimanager")

LoopWifimanager(E) ==
  /\ pc = "wifimanager"
  /\ \E form \in E.forms, wifiConnected \in E.wifi :
       /\ form.saved => wifiManagerSetupRunning
       /\ Goto(wifimanagerLoop(Mem, form, wifiConnected), "mqtt")

LoopMqtt(E) ==
  /\ pc = "mqtt"
  /\ ~offline
  /\ \E connectOk \in (IF mqttConnected THEN {TRUE} ELSE E.connect), msg \in E.msgs :
       Goto(mqttLoop(Mem, connectOk, msg), "delay")

\* mutant of LoopMqttOffline: mqttLoop is called without connectivity
LoopMqttOffline_Calls ==
  /\ pc = "mqtt"
  /\ offline
  /\ \E connectOk \in BOOLEAN, msg \in {NoMsg} \cup Messages :
       Goto(mqttLoop(Mem, connectOk, msg), "delay")

\* if (!offline) fails: mqttLoop is not called
LoopMqttOffline ==
  /\ pc = "mqtt"
  /\ offline
  /\ Goto(Mem, "delay")

\* delay(LOOP_DELAY_MS): the cycle takes d ms; the broker session may end meanwhile
LoopDelay(E) ==
  /\ pc = "delay"
  /\ \E d \in E.adv, lost \in E.lost :
       /\ d >= LOOP_DELAY_MS
       /\ now + d <= E.maxNow
       /\ Goto([Mem EXCEPT !.now = now + d,
                           !.mqttConnected = @ /\ ~lost], "restart")

\* if (restart) ESP.restart(): the run ends
LoopRestart ==
  /\ pc = "restart"
  /\ Goto([Mem EXCEPT !.halted = restart], "loop")

Step(E) ==
  \/ LoopOta(E)
  \/ LoopGpio(E)
  \/ LoopWifimanager(E)
  \/ LoopMqtt(E)
  \/ LoopMqttOffline
  \/ LoopDelay(E)
  \/ LoopRestart

---------------------------------------------------------------------------
(* Specifications *)

\* every input, a short run
EnvAll ==
  [ configs |-> Configs, pins |-> BOOLEAN \X BOOLEAN, bootPortal |-> BOOLEAN,
    button |-> BOOLEAN, flips |-> BOOLEAN \X BOOLEAN,
    forms |-> {NoSave, SavedForm(DefaultConfig)}, wifi |-> BOOLEAN,
    connect |-> BOOLEAN, msgs |-> {NoMsg} \cup Messages, lost |-> BOOLEAN,
    adv |-> {Tick}, maxNow |-> MaxNow ]

Init == Boot(EnvAll)

Next == Step(EnvAll)

Spec == Init /\ [][Next]_vars

\* the setup gesture: WiFi stays down (loop() then calls neither mqttLoop nor
\* the OTA branch), the user works the switches, cycles of several lengths
EnvGesture ==
  [ configs |-> {DefaultConfig}, pins |-> {<< FALSE, FALSE >>}, bootPortal |-> {FALSE},
    button |-> {FALSE}, flips |-> {<< FALSE, FALSE >>, << TRUE, FALSE >>, << TRUE, TRUE >>},
    forms |-> {NoSave}, wifi |-> {FALSE},
    connect |-> {FALSE}, msgs |-> {NoMsg}, lost |-> {FALSE},
    adv |-> {GestureStep, GestureEdge, GestureGap}, maxNow |-> GestureMaxNow ]

InitGesture == Boot(EnvGesture)

NextGesture ==
  \/ LoopGpio(EnvGesture)
  \/ LoopWifimanager(EnvGesture)
  \/ LoopMqttOffline
  \/ LoopDelay(EnvGesture)
  \/ LoopRestart

SpecGesture == InitGesture /\ [][NextGesture]_vars

\* the broker connection: no switch moves and no message arrives, connects
\* fail or succeed, the session may end, every cycle is longer than the
\* longest reconnect delay
EnvBackoff ==
  [ configs |-> {DefaultConfig}, pins |-> {<< FALSE, FALSE >>}, bootPortal |-> {FALSE},
    button |-> {FALSE}, flips |-> {<< FALSE, FALSE >>},
    forms |-> {NoSave}, wifi |-> BOOLEAN,
    connect |-> BOOLEAN, msgs |-> {NoMsg}, lost |-> BOOLEAN,
    adv |-> {BackoffStep}, maxNow |-> BackoffMaxNow ]

InitBackoff == Boot(EnvBackoff)

NextBackoff ==
  \/ LoopGpio(EnvBackoff)
  \/ LoopWifimanager(EnvBackoff)
  \/ LoopMqtt(EnvBackoff)
  \/ LoopMqttOffline
  \/ LoopDelay(EnvBackoff)
  \/ LoopRestart

SpecBackoff == InitBackoff /\ [][NextBackoff]_vars

\* the modes: no switch moves; the portal is opened (at boot, by the button,
\* by "set") and saved or left to time out, update mode is entered by "ota",
\* "rst" arrives in any mode; cycles are shorter than the timeouts; loop() is
\* called again and again for as long as the chip runs
EnvModes ==
  [ configs |-> {DefaultConfig}, pins |-> {<< FALSE, FALSE >>}, bootPortal |-> BOOLEAN,
    button |-> BOOLEAN, flips |-> {<< FALSE, FALSE >>},
    forms |-> {NoSave, SavedForm(DefaultConfig)}, wifi |-> BOOLEAN,
    connect |-> {TRUE},
    msgs |-> {NoMsg} \cup [topic : {"cmd1"}, payload : {CMD_SETUP, CMD_OTA, CMD_RESET}],
    lost |-> {FALSE},
    adv |-> {ModesStep}, maxNow |-> ModesMaxNow ]

InitModes == Boot(EnvModes)

NextModes == Step(EnvModes)

SpecModes == InitModes /\ [][NextModes]_vars /\ WF_vars(NextModes)

\* the gate of the reconnect: no switch moves and no message arrives,
\* connects fail or succeed, the session may end, and a cycle takes as long
\* as one step of the reconnect delay or less
EnvGate ==
  [ configs |-> {DefaultConfig}, pins |-> {<< FALSE, FALSE >>}, bootPortal |-> {FALSE},
    button |-> {FALSE}, flips |-> {<< FALSE, FALSE >>},
    forms |-> {NoSave}, wifi |-> BOOLEAN,
    connect |-> BOOLEAN, msgs |-> {NoMsg}, lost |-> BOOLEAN,
    adv |-> {GateStep, GateShort}, maxNow |-> GateMaxNow ]

InitGate == Boot(EnvGate)

NextGate ==
  \/ LoopGpio(EnvGate)
  \/ LoopWifimanager(EnvGate)
  \/ LoopMqtt(EnvGate)
  \/ LoopMqttOffline
  \/ LoopDelay(EnvGate)
  \/ LoopRestart

SpecGate == InitGate /\ [][NextGate]_vars

---------------------------------------------------------------------------
(* Vocabulary of the properties *)

Channels == {1, 2}

\* relay k's energized state
Relay(k) == IF k = 1 THEN l1State ELSE l2State

\* switch i's pressed state
Switch(i) == IF i = 1 THEN s1State ELSE s2State

\* the switch mapped to relay k (and the relay mapped to switch k)
Source(k) == IF swapRelays THEN 3 - k ELSE k

\* channel k's command topic
InTopic(k) == IF k = 1 THEN mqttInTopic1 ELSE mqttInTopic2

\* the step is a call of gpioLoop
GpioStep == pc = "loop" /\ ~otaRunning /\ pc' = "wifimanager"

\* the step is a call of mqttLoop
MqttStep == pc = "mqtt" /\ ~offline /\ pc' = "delay"

\* the step changed the pressed state of the switch mapped to relay k
SourceEdge(k) == \E i \in Channels : i = Source(k) /\ Switch(i)' # Switch(i)

\* the step called mqttClient.connect
ConnectAttempted ==
  \/ connectFails' = connectFails + 1
  \/ ~mqttConnected /\ mqttConnected'

\* the relay mqttCallback's topic dispatch hands the message to (0: none)
CmdTarget(msg) ==
  IF msg.topic = mqttInTopic1 THEN 1
  ELSE IF msg.topic = mqttInTopic2 THEN 2
  ELSE 0

\* the message is a reset command
IsReset(msg) == msg # NoMsg /\ StartsWith(msg.payload, CMD_RESET)

\* the payload is an on or an off command
IsOnOff(payload) == StartsWith(payload, CMD_ON) \/ StartsWith(payload, CMD_OFF)

\* the publications of pubs on channel k's output topic
PubCount(pubs, k) == Cardinality({i \in DOMAIN pubs : pubs[i].topic = k})

\* the payload the status of channel k has in this state
StatusPayload(k) ==
  << IF Relay(k) THEN "1" ELSE "0" >>
    \o (IF Switch(Source(k)) # invertSwitch THEN << "." >> ELSE << >>)

---------------------------------------------------------------------------
(* Properties *)

\* C1: with respectSwitchState set, a call of gpioLoop leaves every relay
\* whose mapped switch (switch k, or the other one under swapRelays) had an
\* edge at (switch pressed) XOR invertSwitch, and leaves a relay whose mapped
\* switch had no edge as it was.
C1_RespectMirrorsSwitch ==
  [][ (GpioStep /\ respectSwitchState) =>
        \A k \in Channels :
          Relay(k)' = IF SourceEdge(k)
                      THEN (Switch(Source(k))' # invertSwitch')
                      ELSE Relay(k) ]_vars

\* C1 witness: under swap and invert, switch 1 was pressed and switch 2
\* released in the call of gpioLoop that just ran; relay 2 is off, relay 1 on.
C1_Witness ==
  /\ pc = "wifimanager" /\ manualSetupActivatorTime = now
  /\ respectSwitchState /\ swapRelays /\ invertSwitch
  /\ s1State /\ ~s2State /\ l1State /\ ~l2State

\* C2: with respectSwitchState clear, a call of gpioLoop negates every relay
\* whose mapped switch had an edge (press or release) and leaves a relay
\* whose mapped switch had no edge as it was.
C2_EdgeToggles ==
  [][ (GpioStep /\ ~respectSwitchState) =>
        \A k \in Channels :
          Relay(k)' = IF SourceEdge(k) THEN ~Relay(k) ELSE Relay(k) ]_vars

\* C2 witness: under swap, the release of switch 1 just switched relay 2 off
\* (the only publication of the call is channel 2's).
C2_Witness ==
  /\ pc = "wifimanager" /\ manualSetupActivatorTime = now
  /\ ~respectSwitchState /\ swapRelays /\ ~invertSwitch
  /\ ~s1State /\ ~l2State
  /\ published = << [topic |-> 2, payload |-> << "0" >>] >>

\* C3: the configuration portal and the update mode are never both active.
C3_ModesExclusive == ~(wifiManagerSetupRunning /\ otaRunning)

\* C4: five runs of the gesture detector, the first with the counter at zero
\* and more than 500 ms after the previous edge, the next four 100 ms apart,
\* all in normal mode: the fifth, and none before it, starts the portal.
C4_FiveEdgesEnterPortal ==
  \A i \in 1..(Len(edgeLog) - 4) :
    LET e(j) == edgeLog[i + j - 1]
    IN ( /\ e(1).before = 0
         /\ e(1).gap > MANUAL_SETUP_MAX_DELAY_MS
         /\ \A j \in 2..5 : e(j).gap = GestureStep
         /\ \A j \in 1..5 : ~e(j).portal )
       => ( e(5).entered /\ \A j \in 1..4 : ~e(j).entered )

\* C5: an edge 500 ms or more after the previous one restarts the count and
\* requests nothing; the detector requests the portal only at the fifth of
\* five edges that each came less than 500 ms after the edge before.
C5_GestureWindow ==
  LET n == Len(edgeLog)
  IN n > 0 =>
       /\ edgeLog[n].gap >= MANUAL_SETUP_MAX_DELAY_MS =>
            (~edgeLog[n].requested /\ edgeLog[n].after = 0)
       /\ edgeLog[n].requested =>
            /\ n >= MANUAL_SETUP_COUNTER
            /\ \A j \in (n - MANUAL_SETUP_COUNTER + 1)..n :
                 edgeLog[j].gap < MANUAL_SETUP_MAX_DELAY_MS

\* C5 witness: a counted edge, then an edge after a gap that restarted the
\* count, then five quick edges, the last of which requested the portal.
C5_Witness ==
  /\ Len(edgeLog) = 6
  /\ edgeLog[1].before > 0
  /\ edgeLog[1].gap >= MANUAL_SETUP_MAX_DELAY_MS
  /\ edgeLog[6].requested /\ edgeLog[6].entered

\* C6: the reconnect delay is 1 s per failed attempt since the last success,
\* at most 60 s, and 0 while the session is connected.
C6_Backoff ==
  /\ mqttConnectDelay = Min(connectFails * RECONNECT_STEP_MS, RECONNECT_MAX_MS)
  /\ mqttConnected => mqttConnectDelay = 0
  /\ 0 <= mqttConnectDelay /\ mqttConnectDelay <= RECONNECT_MAX_MS

\* C6 witness: more than 60 attempts in a row have failed.
C6_Witness == connectFails = 62 /\ mqttConnectDelay = RECONNECT_MAX_MS

\* C7: every publication on channel k's output topic carries '1' or '0' for
\* relay k, followed by '.' exactly when the switch mapped to relay k is
\* pressed XOR invertSwitch.
C7_StatusPayload ==
  \A i \in DOMAIN published :
    published[i].payload = StatusPayload(published[i].topic)

\* C7 witness: under swap and invert, channel 1 was published as "1." while
\* its switch, switch 2, is released.
C7_Witness ==
  /\ swapRelays /\ invertSwitch /\ ~s2State
  /\ published = << [topic |-> 1, payload |-> << "1", "." >>] >>

\* C8: when a delivery repeats the delivery before it (same topic, same on
\* or off command), then on every channel k whose command topic it came on,
\* relay k is as the first delivery left it and each of the two deliveries
\* published channel k's status exactly once.
C8_SameCommandTwice ==
  [][ (MqttStep /\ received' # NoMsg /\ IsOnOff(received'.payload)
         /\ lastCmd.msg = received') =>
        \A k \in Channels :
          received'.topic = InTopic(k) =>
            /\ Relay(k)' = (IF k = 1 THEN lastCmd.l1State ELSE lastCmd.l2State)
            /\ PubCount(lastCmd.published, k) = 1
            /\ PubCount(published', k) = 1 ]_vars

\* C9 as claimed: every step that changes relay k, or the pressed state of
\* the switch mapped to relay k, publishes on channel k's output topic.
C9_EveryChangePublished ==
  [][ \A k \in Channels :
        (Relay(k)' # Relay(k) \/ SourceEdge(k)) => PubCount(published', k) > 0 ]_vars

\* C9 as amended: the same, for the changes made while the device is online
\* and the broker session is connected.
C9_ChangePublishedWhenConnected ==
  [][ \A k \in Channels :
        ((Relay(k)' # Relay(k) \/ SourceEdge(k)) /\ ~offline' /\ mqttConnected')
          => PubCount(published', k) > 0 ]_vars

\* C9 witness: online and connected, both switches had an edge in the call
\* of gpioLoop that just ran, and both channels were published.
C9_Witness ==
  /\ pc = "wifimanager" /\ manualSetupActivatorTime = now
  /\ ~offline /\ mqttConnected
  /\ PubCount(published, 1) = 1 /\ PubCount(published, 2) = 1

\* C10: a step changes relay k only if it is a call of gpioLoop that saw an
\* edge of the switch mapped to relay k, or a call of mqttLoop that delivered
\* an on or off command on channel k's command topic.
C10_RelayFrame ==
  [][ \A k \in Channels :
        Relay(k)' # Relay(k) =>
          \/ GpioStep /\ SourceEdge(k)
          \/ /\ MqttStep /\ received' # NoMsg
             /\ IsOnOff(received'.payload)
             /\ received'.topic = InTopic(k) ]_vars

\* C10 witness: in the first cycle, with no switch edge so far, an on command
\* on channel 2's command topic has energized relay 2 and not relay 1.
C10_Witness ==
  /\ now = BootNow /\ pc = "delay" /\ manualSetupActivatorTime = 0
  /\ mqttInTopic2 = "cmd2"
  /\ received = [topic |-> "cmd2", payload |-> CMD_ON]
  /\ l2State /\ ~l1State

\* C11: whenever the broker has sent a "rst" command to the device, in normal
\* mode, with the portal open or in update mode, the step that follows has
\* delivered it to mqttCallback and the restart flag is set.
C11_ResetInEveryMode ==
  IsReset(arrived) => (received = arrived /\ restart)

\* C12: a step that begins with the portal open or in update mode (from the
\* step after the one that entered the mode, until the restart) changes no
\* relay and publishes nothing.
C12_ModeSuspendsNormalChain ==
  [][ (wifiManagerSetupRunning \/ otaRunning) =>
        (l1State' = l1State /\ l2State' = l2State /\ published' = << >>) ]_vars

C15_CommandDispatch ==
  [][ (MqttStep /\ received' # NoMsg /\ IsOnOff(received'.payload)) =>
        \A k \in Channels :
          received'.topic = InTopic(k) =>
            /\ Relay(k)' = StartsWith(received'.payload, CMD_ON)
            /\ PubCount(published', k) = 1 ]_vars

C16_OfflineNormalMode ==
  [][ (offline /\ ~wifiManagerSetupRunning /\ ~otaRunning) =>
        /\ published' = << >>
        /\ received' = NoMsg
        /\ mqttConnectAttempt' = mqttConnectAttempt
        /\ connectFails' = connectFails
        /\ mqttConnected' => mqttConnected
        /\ GpioStep =>
             \A k \in Channels :
               Relay(k)' = IF ~SourceEdge(k) THEN Relay(k)
                           ELSE IF respectSwitchState
                                THEN (Switch(Source(k))' # invertSwitch)
                                ELSE ~Relay(k) ]_vars

\* C16 witness: offline, in normal mode, in the second cycle: the call of
\* gpioLoop that just ran saw switch 2 pressed, relay 2 followed it, and
\* nothing was published; no connect has been attempted since boot.
C16_Witness ==
  /\ pc = "wifimanager" /\ now > BootNow /\ manualSetupActivatorTime = now
  /\ offline /\ ~wifiManagerSetupRunning /\ ~otaRunning
  /\ respectSwitchState /\ ~swapRelays /\ ~invertSwitch
  /\ gpioWrote = {2} /\ s2State /\ l2State
  /\ published = << >> /\ mqttConnectAttempt = 0

\* C17: a step that ends offline or without a broker session has published
\* nothing; a publication on channel k's output topic is made only by a
\* relay action on channel k (an edge of its mapped switch in gpioLoop, an on
\* or off command on its command topic); a step that reconnects and delivers
\* no command publishes nothing.
C17_NoPublicationWhileDown ==
  [][ /\ (offline' \/ ~mqttConnected') => published' = << >>
      /\ \A k \in Channels :
           PubCount(published', k) > 0 =>
             \/ GpioStep /\ SourceEdge(k)
             \/ /\ MqttStep /\ received' # NoMsg
                /\ IsOnOff(received'.payload)
                /\ received'.topic = InTopic(k)
      /\ (MqttStep /\ ~mqttConnected /\ mqttConnected' /\ received' = NoMsg)
           => published' = << >> ]_vars

\* C17 witness: relay 1 was switched on by a switch edge while the session
\* was down; the connect that followed in the same cycle succeeded, no
\* command arrived, and nothing has been published.
C17_Witness ==
  /\ pc = "delay" /\ ~offline /\ mqttConnected
  /\ mqttConnectAttempt = now /\ connectFails = 0
  /\ gpioWrote = {1} /\ l1State
  /\ received = NoMsg /\ published = << >>

\* C18: a call of mqttLoop attempts a connect exactly when the session is
\* disconnected and now - mqttConnectAttempt >= mqttConnectDelay; a step that
\* connects leaves the session subscribed to both channels' command topics.
C18_ConnectGating ==
  [][ MqttStep =>
        /\ ConnectAttempted <=>
             (~mqttConnected /\ Sub32(now, mqttConnectAttempt) >= mqttConnectDelay)
        /\ (~mqttConnected /\ mqttConnected') =>
             subscribed' = {mqttInTopic1, mqttInTopic2} ]_vars

\* C19: at the end of a cycle in which gpioLoop wrote relay k on a switch
\* edge and mqttLoop then delivered an on or off command that acts on relay
\* k, relay k has the command's value; and nothing is queued: a later call
\* of gpioLoop that sees no edge of relay k's mapped switch leaves relay k.
C19_LastWriterWins ==
  /\ [] ( (pc = "delay" /\ received # NoMsg /\ IsOnOff(received.payload)) =>
            \A k \in gpioWrote :
              CmdTarget(received) = k =>
                Relay(k) = StartsWith(received.payload, CMD_ON) )
  /\ [][ GpioStep =>
           \A k \in Channels : ~SourceEdge(k) => Relay(k)' = Relay(k) ]_vars

\* C19 witness: in one cycle the press of switch 1 energized relay 1 and an
\* off command on channel 1's command topic then de-energized it.
C19_Witness ==
  /\ pc = "delay" /\ gpioWrote = {1}
  /\ respectSwitchState /\ ~swapRelays /\ ~invertSwitch /\ s1State
  /\ received = [topic |-> "cmd1", payload |-> CMD_OFF]
  /\ mqttInTopic1 = "cmd1" /\ ~l1State

\* C20: the chip restarts only in the restart check that ends loop(), and
\* only with the restart flag set; the step that sets the flag (the save
\* handler or the portal timeout in wifimanagerLoop, the command callback in
\* mqttLoop, the update branch) does not restart and hands on to the rest of
\* the cycle; the check at the end of that cycle restarts, and no new cycle
\* begins with the flag set.
C20_DeferredRestart ==
  [][ /\ (pc' = "restarted" /\ pc # "restarted") => (pc = "restart" /\ restart)
      /\ (restart' /\ ~restart) => (~halted' /\ pc' \in {"mqtt", "delay", "restart"})
      /\ (pc = "restart" /\ restart) => pc' = "restarted"
      /\ restart => pc' # "loop" ]_vars

\* C20 witness: the chip has restarted after a saved configuration, and the
\* save was the only thing that asked for it.
C20_Witness ==
  /\ pc = "restarted" /\ halted /\ restartCause = {"save"}

C22_CounterReset ==
  /\ pc = "restart" =>
       (0 <= manualSetupModeCounter /\ manualSetupModeCounter < MANUAL_SETUP_COUNTER)
  /\ \A i \in DOMAIN edgeLog :
       /\ edgeLog[i].requested => edgeLog[i].after = 0
       /\ edgeLog[i].gap >= MANUAL_SETUP_MAX_DELAY_MS => edgeLog[i].after = 0

=============================================================================
